---- MODULE Spec2Model ----
(***************************************************************************)
(* The request-instrumentation middleware of src/app.js: for every inbound *)
(* request it extracts a trace context, starts a span and a duration       *)
(* timer, registers a listener on the response's 'finish' event and calls  *)
(* next(); the listener increments the request counter, observes the       *)
(* duration histogram, tags the span with the status code and finishes it. *)
(*                                                                         *)
(* JavaScript runs every callback to completion, so one action is one      *)
(* callback: the synchronous part of a request (middleware + route         *)
(* dispatch), the continuation of the /metrics handler after its await,    *)
(* and the 'finish' listener.  The variable log records, in program order, *)
(* every call a callback makes.                                            *)
(***************************************************************************)
EXTENDS Integers, Sequences, FiniteSets, TLC

\* Number of requests the server receives in a run.
MaxReq == 2
\* Number of times the 'finish' event may be emitted on one response in the
\* specification SpecRefire.
MaxEmit == 2

Reqs == 1..MaxReq

Methods == {"GET", "POST"}
Paths == {"/", "/metrics"}
Statuses == {200, 404, 500}
\* The request lines the server is sent: the two routes, and one request
\* that matches no route.
RequestLines == {<<"GET", "/">>, <<"GET", "/metrics">>, <<"POST", "/">>}

\* req.headers, reduced to the trace header: the colon-separated parts of
\* "traceId:spanId:parentId:flags"; <<>> is "no trace header".
HeaderValues == {<< >>, <<7>>, <<1, 2, 0, 1>>}

NoContext == [traceId |-> 0, spanId |-> 0, flags |-> 0]
NoLabels == [method |-> "-", route |-> "-", status_code |-> 0]
NoBody == [kind |-> "none", text |-> "", samples |-> {}]
TextBody(t) == [kind |-> "text", text |-> t, samples |-> {}]
MetricsBody(ss) == [kind |-> "metrics", text |-> "", samples |-> ss]

\* The collaborator call that throws while a request is served ("none": no
\* collaborator fails).
Faults == {"none", "extract", "startSpan", "startTimer",
           "inc", "observe", "setTag", "finish"}

CounterLabels == [method : Methods, route : Paths, status_code : Statuses]
HistogramLabels == [method : Methods, route : Paths, code : Statuses]

VARIABLES
    phase,      \* per request: "new", "pending", "ended", "finished", "closed"
    method,     \* req.method
    path,       \* req.path
    headers,    \* req.headers
    fault,      \* the collaborator call that throws for this request
    statusCode, \* res.statusCode
    body,       \* what the response carries
    listeners,  \* number of 'finish' listeners registered on res
    emitted,    \* number of 'finish' events emitted on res
    span,       \* the span of the request's closure
    timer,      \* the timer (end) of the request's closure
    counter,    \* httpRequestCounter: label set -> value
    histogram,  \* httpRequestDurationMicroseconds: label set -> count, sum
    logger,     \* the lines written by the winston logger
    log,        \* the calls made so far, in program order
    crashed     \* the process died of an uncaught exception

vars == <<phase, method, path, headers, fault, statusCode, body, listeners,
          emitted, span, timer, counter, histogram, logger, log, crashed>>

Ev(e, r) == [ev |-> e, r |-> r, labels |-> NoLabels]
EvL(e, r, l) == [ev |-> e, r |-> r, labels |-> l]

NoSpan == [started |-> FALSE, name |-> "-", parent |-> NoContext,
           kind |-> "-", statusTag |-> 0, finished |-> 0]
NoTimer == [started |-> FALSE, start |-> 0, stops |-> 0]

----------------------------------------------------------------------------
(* Collaborators *)

\* tracer.extract(FORMAT_HTTP_HEADERS, req.headers): the context carried by
\* a well-formed trace header, no context otherwise.
Extract(h) ==
    IF Len(h) = 4 /\ h[1] # 0
    THEN [traceId |-> h[1], spanId |-> h[2], flags |-> h[4]]
    ELSE NoContext

\* A span that drops the extracted context.
StartSpanRoot(name, childOf) ==
    [started |-> TRUE, name |-> name, parent |-> NoContext,
     kind |-> "server", statusTag |-> 0, finished |-> 0]

\* tracer.startSpan(req.path, {childOf: parentSpanContext, tags: {span.kind: server}})
StartSpan(name, childOf) ==
    [started |-> TRUE, name |-> name, parent |-> childOf,
     kind |-> "server", statusTag |-> 0, finished |-> 0]

\* An increment that overwrites the series instead of adding to it.
CounterIncLost(c, l) == [c EXCEPT ![l] = 1]

\* httpRequestCounter.inc(labels)
CounterInc(c, l) == [c EXCEPT ![l] = @ + 1]

\* end(labels): observe the elapsed time d in the histogram series.
Observe(hg, l, d) ==
    [hg EXCEPT ![l] = [count |-> @.count + 1, sum |-> @.sum + d]]

\* A rendering that leaves the application counter out.
RenderEmpty(c) == {}

\* register.metrics(): one sample per existing series of http_requests_total,
\* with the registry's default label.
Render(c) ==
    {[method |-> l.method, route |-> l.route, status_code |-> l.status_code,
      app |-> "nodejs-demo-app", value |-> c[l]] :
        l \in {k \in CounterLabels : c[k] > 0}}

----------------------------------------------------------------------------
(* The middleware, lines 79-98 *)

\* The middleware forwarding to the handler before it has started the span
\* and the timer.
MiddlewareStepsNextFirst == <<"extract", "next", "startSpan", "startTimer", "on">>

\* The calls of one middleware invocation, in program order.
MiddlewareSteps == <<"extract", "startSpan", "startTimer", "on", "next">>

\* The listener finishing the span before it records the metrics.
CallbackStepsFinishFirst == <<"finish", "setTag", "inc", "observe">>

\* The calls of the 'finish' listener, in program order.
CallbackSteps == <<"inc", "observe", "setTag", "finish">>

\* The number of calls of steps that return before the call f throws (all of
\* them when f is not among steps).
Completed(steps, f) ==
    IF \E i \in 1..Len(steps) : steps[i] = f
    THEN (CHOOSE i \in 1..Len(steps) : steps[i] = f) - 1
    ELSE Len(steps)

Ran(steps, n, s) == \E i \in 1..n : steps[i] = s

\* app.get('/') and app.get('/metrics') are the only routes; everything else
\* falls through to the framework's 404 response.
Route(m, p) ==
    IF m = "GET" /\ p = "/" THEN "hello"
    ELSE IF m = "GET" /\ p = "/metrics" THEN "metrics"
    ELSE "notfound"

\* The calls made inside next(): the synchronous part of the route handler.
HandlerTrace(r, m, p) ==
    IF Route(m, p) = "hello"
    THEN <<Ev("handler", r), Ev("logger.info", r), Ev("send", r)>>
    ELSE IF Route(m, p) = "metrics"
    THEN <<Ev("handler", r), Ev("await", r)>>
    ELSE <<Ev("handler", r), Ev("send", r)>>

RECURSIVE MiddlewareTrace(_, _, _, _)
\* The first n calls of the middleware; the handler runs inside next().
MiddlewareTrace(steps, n, r, ht) ==
    IF n = 0 THEN << >>
    ELSE MiddlewareTrace(steps, n - 1, r, ht) \o <<Ev(steps[n], r)>>
         \o (IF steps[n] = "next" THEN ht ELSE << >>)

\* One request enters the server: the middleware runs, and inside its call
\* of next() the route is dispatched.  A collaborator that throws ends the
\* middleware there; the framework answers 500 and the handler is not run.
Handle(r, m, p, h, f) ==
    LET n == Completed(MiddlewareSteps, f)
        threw == n < Len(MiddlewareSteps)
        called == Ran(MiddlewareSteps, n, "next")
        trace == MiddlewareTrace(MiddlewareSteps, n, r, HandlerTrace(r, m, p))
    IN  /\ ~crashed
        /\ phase[r] = "new"
        /\ \A q \in 1..(r - 1) : phase[q] # "new"
        /\ method' = [method EXCEPT ![r] = m]
        /\ path' = [path EXCEPT ![r] = p]
        /\ headers' = [headers EXCEPT ![r] = h]
        /\ fault' = [fault EXCEPT ![r] = f]
        /\ span' = [span EXCEPT ![r] =
                IF Ran(MiddlewareSteps, n, "startSpan")
                THEN StartSpan(p, Extract(h)) ELSE @]
        /\ timer' = [timer EXCEPT ![r] =
                IF Ran(MiddlewareSteps, n, "startTimer")
                THEN [started |-> TRUE, start |-> Len(log), stops |-> 0] ELSE @]
        /\ listeners' = [listeners EXCEPT ![r] =
                IF Ran(MiddlewareSteps, n, "on") THEN @ + 1 ELSE @]
        /\ log' = log \o trace \o (IF threw THEN <<Ev("error", r)>> ELSE << >>)
        /\ logger' = IF called /\ Route(m, p) = "hello"
                     THEN Append(logger, [level |-> "info",
                                 message |-> "Hello World endpoint was called"])
                     ELSE logger
        /\ statusCode' = [statusCode EXCEPT ![r] =
                IF threw THEN 500
                ELSE IF Route(m, p) = "notfound" THEN 404 ELSE @]
        /\ body' = [body EXCEPT ![r] =
                IF threw THEN TextBody("Internal Server Error")
                ELSE IF Route(m, p) = "hello" THEN TextBody("Hello World!")
                ELSE IF Route(m, p) = "notfound" THEN TextBody("Not Found")
                ELSE @]
        /\ phase' = [phase EXCEPT ![r] =
                IF ~threw /\ Route(m, p) = "metrics" THEN "pending" ELSE "ended"]
        /\ UNCHANGED <<emitted, counter, histogram, crashed>>

\* A request served while every collaborator works.
Request(r) ==
    \E q \in RequestLines, h \in HeaderValues : Handle(r, q[1], q[2], h, "none")

\* A request served while one collaborator call throws.
FaultyRequest(r) ==
    \E q \in RequestLines, h \in HeaderValues, f \in Faults \ {"none"} :
        Handle(r, q[1], q[2], h, f)

\* The /metrics handler resumes after await register.metrics() and ends the
\* response with the rendered registry.
MetricsResume(r) ==
    /\ ~crashed
    /\ phase[r] = "pending"
    /\ body' = [body EXCEPT ![r] = MetricsBody(Render(counter))]
    /\ phase' = [phase EXCEPT ![r] = "ended"]
    /\ log' = log \o <<Ev("render", r), Ev("send", r)>>
    /\ UNCHANGED <<method, path, headers, fault, statusCode, listeners,
                   emitted, span, timer, counter, histogram, logger, crashed>>

----------------------------------------------------------------------------
(* The 'finish' listener, lines 87-96 *)

Labels(r) == [method |-> method[r], route |-> path[r],
              status_code |-> statusCode[r]]
HLabels(r) == [method |-> method[r], route |-> path[r], code |-> statusCode[r]]

\* The first n calls of the listener.
CallbackTrace(r, n) ==
    [i \in 1..n |->
        IF CallbackSteps[i] \in {"inc", "observe"}
        THEN EvL(CallbackSteps[i], r, Labels(r))
        ELSE Ev(CallbackSteps[i], r)]

\* 'finish' is emitted on the response of r: every registered listener runs,
\* up to the call that throws.
OnFinish(r) ==
    LET n == IF listeners[r] = 0 THEN 0 ELSE Completed(CallbackSteps, fault[r])
        threw == listeners[r] > 0 /\ n < Len(CallbackSteps)
    IN  /\ emitted' = [emitted EXCEPT ![r] = @ + 1]
        /\ counter' = IF Ran(CallbackSteps, n, "inc")
                      THEN CounterInc(counter, Labels(r)) ELSE counter
        /\ histogram' = IF Ran(CallbackSteps, n, "observe")
                        THEN Observe(histogram, HLabels(r), Len(log) - timer[r].start)
                        ELSE histogram
        /\ timer' = [timer EXCEPT ![r] =
                IF Ran(CallbackSteps, n, "observe")
                THEN [@ EXCEPT !.stops = @ + 1] ELSE @]
        /\ span' = [span EXCEPT ![r] =
                [@ EXCEPT !.statusTag = IF Ran(CallbackSteps, n, "setTag")
                                        THEN statusCode[r] ELSE @,
                          !.finished = IF Ran(CallbackSteps, n, "finish")
                                       THEN @ + 1 ELSE @]]
        /\ log' = log \o <<Ev("emit", r)>> \o CallbackTrace(r, n)
        /\ crashed' = threw
        /\ UNCHANGED <<method, path, headers, fault, statusCode, body,
                       listeners, logger>>

\* The response has been handed to the network: 'finish' is emitted.
Finish(r) ==
    /\ ~crashed
    /\ phase[r] = "ended"
    /\ phase' = [phase EXCEPT ![r] = "finished"]
    /\ OnFinish(r)

\* The connection is torn down before the response is finished: the response
\* emits 'close' and never 'finish'.
Abort(r) ==
    /\ ~crashed
    /\ phase[r] \in {"pending", "ended"}
    /\ phase' = [phase EXCEPT ![r] = "closed"]
    /\ UNCHANGED <<method, path, headers, fault, statusCode, body, listeners,
                   emitted, span, timer, counter, histogram, logger, log, crashed>>

\* 'finish' is emitted again on a response that has already finished.
Refire(r) ==
    /\ ~crashed
    /\ phase[r] = "finished"
    /\ emitted[r] < MaxEmit
    /\ UNCHANGED phase
    /\ OnFinish(r)

----------------------------------------------------------------------------
(* Specifications *)

Init ==
    /\ phase = [r \in Reqs |-> "new"]
    /\ method = [r \in Reqs |-> "GET"]
    /\ path = [r \in Reqs |-> "/"]
    /\ headers = [r \in Reqs |-> << >>]
    /\ fault = [r \in Reqs |-> "none"]
    /\ statusCode = [r \in Reqs |-> 200]
    /\ body = [r \in Reqs |-> NoBody]
    /\ listeners = [r \in Reqs |-> 0]
    /\ emitted = [r \in Reqs |-> 0]
    /\ span = [r \in Reqs |-> NoSpan]
    /\ timer = [r \in Reqs |-> NoTimer]
    /\ counter = [l \in CounterLabels |-> 0]
    /\ histogram = [l \in HistogramLabels |-> [count |-> 0, sum |-> 0]]
    /\ logger = << >>
    /\ log = << >>
    /\ crashed = FALSE

Next ==
    \E r \in Reqs :
        \/ Request(r)
        \/ MetricsResume(r)
        \/ Finish(r)
        \/ Abort(r)

\* The server as deployed.
Spec == Init /\ [][Next]_vars

NextRefire ==
    \E r \in Reqs :
        \/ Request(r)
        \/ MetricsResume(r)
        \/ Finish(r)
        \/ Abort(r)
        \/ Refire(r)

\* The server when the completion event may be delivered more than once.
SpecRefire == Init /\ [][NextRefire]_vars

NextFault ==
    \E r \in Reqs :
        \/ Request(r)
        \/ FaultyRequest(r)
        \/ MetricsResume(r)
        \/ Finish(r)
        \/ Abort(r)

\* The server when a telemetry collaborator may throw.
SpecFault == Init /\ [][NextFault]_vars

\* The server as deployed, where a callback that can run eventually runs;
\* whether a connection is torn down is up to the client.
SpecLive ==
    Spec /\ \A r \in Reqs :
        WF_vars(Request(r)) /\ WF_vars(MetricsResume(r)) /\ WF_vars(Finish(r))

----------------------------------------------------------------------------
(* Properties *)

Pos(e, r) == {i \in 1..Len(log) : log[i].ev = e /\ log[i].r = r}
Count(e, r) == Cardinality(Pos(e, r))
CompletionPos(r) ==
    Pos("inc", r) \cup Pos("observe", r) \cup Pos("setTag", r) \cup Pos("finish", r)
\* The exchange of r is over: the response finished or the connection closed.
Over(r) == phase[r] \in {"finished", "closed"}
\* b entered the server before the completion of a ran.
Overlap(a, b) ==
    \E i \in Pos("next", b), j \in Pos("emit", a) : i < j
ValidHeader(h) == Len(h) = 4 /\ h[1] # 0
\* The positions of the samples recorded before position p of log.
IncBefore(p) == {i \in 1..(p - 1) : log[i].ev = "inc"}

\* C1: once the exchange of a request is over, exactly one counter sample and
\* exactly one histogram sample have been recorded for it, both labelled with
\* its method and its path, whatever the status code.
C1_OneSamplePerRequest ==
    \A r \in Reqs : Over(r) =>
        /\ Count("inc", r) = 1
        /\ Count("observe", r) = 1
        /\ \A i \in Pos("inc", r) \cup Pos("observe", r) :
              log[i].labels.method = method[r] /\ log[i].labels.route = path[r]

\* C2: once the exchange of a request is over, its span has been finished
\* exactly once and carries the response's final status code as its tag.
C2_SpanFinishedOnceWithStatus ==
    \A r \in Reqs : Over(r) =>
        /\ span[r].started
        /\ span[r].finished = 1
        /\ span[r].statusTag = statusCode[r]

\* C3: when 'finish' is emitted more than once for a request, each of the
\* four completion actions is still performed at most once for it.
C3_CompletionIdempotent ==
    \A r \in Reqs : emitted[r] > 1 =>
        /\ Count("inc", r) <= 1
        /\ Count("observe", r) <= 1
        /\ Count("setTag", r) <= 1
        /\ span[r].finished <= 1
        /\ timer[r].stops <= 1

\* C4: on every exit path every span that was started is eventually finished
\* and every timer that was started is eventually stopped.
C4_NoSpanOrTimerLeaked ==
    \A r \in Reqs :
        /\ span[r].started ~> (span[r].finished >= 1)
        /\ timer[r].started ~> (timer[r].stops >= 1)

\* C5: the completion actions of a request run in the order counter,
\* histogram, span tag, span finish, as one block of the log that no other
\* call interrupts.
C5_CompletionOrderAtomic ==
    \A i \in 1..Len(log) :
        /\ log[i].ev = "inc" =>
              /\ i + 3 <= Len(log)
              /\ log[i + 1].ev = "observe" /\ log[i + 1].r = log[i].r
              /\ log[i + 2].ev = "setTag" /\ log[i + 2].r = log[i].r
              /\ log[i + 3].ev = "finish" /\ log[i + 3].r = log[i].r
        /\ log[i].ev = "observe" =>
              i > 1 /\ log[i - 1].ev = "inc" /\ log[i - 1].r = log[i].r
        /\ log[i].ev = "setTag" =>
              i > 1 /\ log[i - 1].ev = "observe" /\ log[i - 1].r = log[i].r
        /\ log[i].ev = "finish" =>
              i > 1 /\ log[i - 1].ev = "setTag" /\ log[i - 1].r = log[i].r

\* Two requests that were in flight together have both completed.
C5_Witness ==
    \E a, b \in Reqs :
        /\ a # b /\ Overlap(a, b)
        /\ phase[a] = "finished" /\ phase[b] = "finished"
        /\ Count("finish", a) = 1 /\ Count("finish", b) = 1

\* C6: under every interleaving no counter update is lost: each series holds
\* exactly the number of finished requests with its labels (N concurrent
\* GET / requests finished with 200 give N), and each request's span and
\* timer are finished and stopped by its own completion only.
C6_NoLostUpdate ==
    /\ \A l \in CounterLabels :
          counter[l] = Cardinality({r \in Reqs : phase[r] = "finished" /\ Labels(r) = l})
    /\ \A r \in Reqs :
          /\ span[r].finished = (IF phase[r] = "finished" THEN 1 ELSE 0)
          /\ timer[r].stops = (IF phase[r] = "finished" THEN 1 ELSE 0)
          /\ span[r].started => span[r].name = path[r]

\* Two concurrent GET / requests have both finished with 200 and the series
\* stands at 2.
C6_Witness ==
    /\ Overlap(1, 2)
    /\ \A r \in {1, 2} : phase[r] = "finished" /\ Route(method[r], path[r]) = "hello"
    /\ counter[[method |-> "GET", route |-> "/", status_code |-> 200]] >= 2

C8_ParentIsExtractedContext ==
    \A r \in Reqs : phase[r] # "new" =>
        /\ span[r].started
        /\ ValidHeader(headers[r]) =>
              /\ span[r].parent.traceId = headers[r][1]
              /\ span[r].parent.spanId = headers[r][2]
        /\ ~ValidHeader(headers[r]) =>
              /\ span[r].parent = NoContext
              /\ Count("handler", r) = 1
              /\ statusCode[r] # 500

\* One span has the propagated context as parent, and requests with absent
\* and with malformed headers have been served with root spans.
C8_Witness ==
    \E a, b \in Reqs :
        /\ span[a].started /\ ValidHeader(headers[a])
        /\ span[a].parent.traceId = 1
        /\ span[b].started /\ headers[b] \in {<< >>, <<7>>}
        /\ phase[b] = "finished"

\* C9: an invocation extracts, starts the span and the timer, registers the
\* listener and calls next() exactly once, the handler starting at once;
\* span and timer start precede the handler, and every completion action
\* comes after the handler and after an emission of 'finish'.
C9_MiddlewareThenHandlerThenCompletion ==
    \A r \in Reqs : phase[r] # "new" =>
        LET mine == {i \in 1..Len(log) : log[i].r = r}
            At(e) == {i \in mine : log[i].ev = e}
            completion == At("inc") \cup At("observe") \cup At("setTag") \cup At("finish")
        IN  /\ \A e \in {"extract", "startSpan", "startTimer", "on", "next", "handler"} :
                  Cardinality(At(e)) = 1
            /\ \A i \in At("next") : log[i + 1].ev = "handler" /\ log[i + 1].r = r
            /\ \A i \in At("extract") \cup At("startSpan")
                        \cup At("startTimer") \cup At("on") :
                  \A j \in At("handler") : i < j
            /\ \A k \in completion :
                  /\ \A j \in At("handler") : j < k
                  /\ \E e \in At("emit") : e < k
            /\ phase[r] \in {"pending", "ended"} => completion = {}

\* A request has gone through middleware, handler and completion.
C9_Witness ==
    \E r \in Reqs :
        /\ phase[r] = "finished"
        /\ Count("next", r) = 1
        /\ Cardinality(CompletionPos(r)) = 4

\* C10: the body of a GET /metrics response holds exactly the samples
\* recorded before it was rendered, and the request's own sample is recorded
\* after the rendering.
C10_MetricsBodyExcludesOwnSample ==
    \A r \in Reqs : body[r].kind = "metrics" =>
        /\ Count("render", r) = 1
        /\ \A p \in Pos("render", r) :
              LET before == IncBefore(p)
                  N(l) == Cardinality({i \in before : log[i].labels = l})
              IN  /\ body[r].samples =
                        {[method |-> l.method, route |-> l.route,
                          status_code |-> l.status_code,
                          app |-> "nodejs-demo-app", value |-> N(l)] :
                            l \in {k \in CounterLabels : N(k) > 0}}
                  /\ \A i \in before : log[i].r # r
                  /\ \A i \in Pos("inc", r) : p < i

\* A scrape shows the sample of an earlier /metrics request and its own
\* sample has been recorded after its body was rendered.
C10_Witness ==
    \E r \in Reqs :
        /\ phase[r] = "finished"
        /\ body[r].kind = "metrics"
        /\ Count("inc", r) = 1
        /\ \E s \in body[r].samples : s.route = "/metrics" /\ s.value = 1

====
